---------------------------- MODULE Spec2Model ----------------------------
(***************************************************************************)
(* Model of ElasticsearchSearchEngine<T>                                   *)
(* (server/src/search-engine/elasticsearch/search-engine.ts).              *)
(*                                                                         *)
(* A flow is one asynchronous invocation of a public method of the client  *)
(* (initialize, index, search, drop).  Every `await` of a backend call is  *)
(* one step: the call is issued, the backend acts and answers (or          *)
(* rejects), and the method runs on to its next await.  The backend is the *)
(* narrow capability interface the class consumes: one named index that is *)
(* absent, open or closed, its applied settings and mapping, and its       *)
(* documents.  A call the backend rejects changes nothing in the backend;  *)
(* any call may be rejected (the backend is unreachable), and a call the   *)
(* index's state does not allow is always rejected.                        *)
(***************************************************************************)
EXTENDS Integers, Sequences, FiniteSets, TLC

\* ------------------------------------------------------------------ bounds
MaxPingFailures == 2
MaxBatch == 2
MaxHits == 2
MaxMilliseconds == 2

Flows == {1, 2}
Ids == {"a", "b"}
Documents == {[title |-> "t1"], [title |-> "t2"]}
Tooks == {3, 7}
ConfigValues == {"undefined", "empty", "nonempty"}

IndexName == "idx"
TypeName == "typ"

VARIABLES
    idx,            \* backend: the index is "absent", "open" or "closed"
    idxSettings,    \* backend: settings applied to the index ("none" when default)
    idxMapping,     \* backend: mapping applied to the index (<<>> when default)
    store,          \* backend: the documents, a set of <<id, document>>
    indexSettings,  \* this.indexSettings
    mapping,        \* this.mapping
    op,             \* per flow: the public method running (or last run)
    pc,             \* per flow: the await the method is at, "done" or "failed"
    calls,          \* per flow: backend calls issued by the method so far
    sleeps,         \* per flow: sleep(2000) calls completed by the method so far
    probesFailed,   \* per flow: health probes of the method that failed
    success,        \* per flow: waitForConnection's local `success`
    error,          \* per flow: what the method rejected with ("none" if nothing)
    items,          \* per flow: index()'s argument
    preStore,       \* per flow: the documents when index() issued its bulk call
    bulkRequest,    \* per flow: index()'s bulkRequest
    response,       \* per flow: the bulk response index() received
    thrown,         \* per flow: the message of the Error index() threw
    query,          \* per flow: search()'s argument
    result,         \* per flow: the backend's answer to the query call
    searchResult,   \* per flow: what search() returned
    indexExists,    \* per flow: ensureIndex's local `indexExists` ("unknown" before)
    entry,          \* per flow: the backend's index when the method was invoked
    sinceDrop,      \* what the caller has completed since its last successful drop()
    ctArgs,         \* cancelableTimeout: the arguments after cancelPromise
    milliseconds,   \* cancelableTimeout: local `milliseconds`
    resolveOnCancel, \* cancelableTimeout: `resolveOnCancel` after the overload test
    resolved,       \* cancelableTimeout: local `resolved`
    timer,          \* cancelableTimeout: the timer is "unset", "armed", "fired", "cleared"
    cancelPromise,  \* cancelableTimeout: cancelPromise is "pending" or "resolved"
    awaiting,       \* cancelableTimeout: the executor's await: "notyet", "waiting",
                    \*   "ready" (continuation queued), "done"
    promise,        \* cancelableTimeout: the returned promise: "pending", "false", "true"
    resolveCalls,   \* cancelableTimeout: calls of resolve() so far
    clock,          \* cancelableTimeout: time elapsed since the call
    firstHandled    \* cancelableTimeout: which of timer and cancel was handled first

backendVars == <<idx, idxSettings, idxMapping, store>>
configVars == <<indexSettings, mapping>>
gateVars == <<sleeps, probesFailed, success>>
indexVars == <<items, preStore, bulkRequest, response, thrown>>
searchVars == <<query, result, searchResult>>
timerVars == <<ctArgs, milliseconds, resolveOnCancel, resolved, timer,
               cancelPromise, awaiting, promise, resolveCalls, clock,
               firstHandled>>
engineVars == <<idx, idxSettings, idxMapping, store, indexSettings, mapping, op,
                pc, calls, sleeps, probesFailed, success, error, items, preStore,
                bulkRequest, response, thrown, query, result, searchResult,
                indexExists, entry, sinceDrop>>
vars == <<engineVars, timerVars>>

\* ------------------------------------------------------------ constructor
\* this.mapping: the supplied mapping wrapped under the type name, or undefined.
WrapMapping(indexMapping) ==
    IF indexMapping # "undefined" THEN <<TypeName, indexMapping>> ELSE <<>>

MappingDefined == mapping # <<>>
SettingsDefined == indexSettings # "undefined"

NoRequest == [body |-> <<>>, index |-> "", type |-> ""]
NoResponse == [took |-> 0, errors |-> FALSE, items |-> <<>>]
NoThrown == [took |-> "", errors |-> "", items |-> <<>>]
NoQuery == [supported |-> TRUE, limit |-> 0]
NoResult == [took |-> 0, hits |-> [total |-> 0, hits |-> <<>>]]
NoSearchResult == [total |-> 0, milliseconds |-> 0, items |-> <<>>]
NoArgs == [second |-> "omitted", number |-> 0, boolean |-> FALSE, third |-> "omitted"]

\* The backend's index as a method finds it.
Backend == [idx |-> idx, settings |-> idxSettings, mapping |-> idxMapping,
            documents |-> store]

\* Before cancelableTimeout is called.
TimerInit ==
    /\ ctArgs = NoArgs
    /\ milliseconds = 0
    /\ resolveOnCancel = FALSE
    /\ resolved = FALSE
    /\ timer = "unset"
    /\ cancelPromise = "pending"
    /\ awaiting = "notyet"
    /\ promise = "pending"
    /\ resolveCalls = 0
    /\ clock = 0
    /\ firstHandled = "none"

Init ==
    /\ idx = "absent"
    /\ idxSettings = "none"
    /\ idxMapping = <<>>
    /\ store = {}
    /\ indexSettings \in ConfigValues
    /\ \E indexMapping \in ConfigValues : mapping = WrapMapping(indexMapping)
    /\ op = [f \in Flows |-> "none"]
    /\ pc = [f \in Flows |-> "idle"]
    /\ calls = [f \in Flows |-> <<>>]
    /\ sleeps = [f \in Flows |-> 0]
    /\ probesFailed = [f \in Flows |-> 0]
    /\ success = [f \in Flows |-> FALSE]
    /\ error = [f \in Flows |-> "none"]
    /\ items = [f \in Flows |-> <<>>]
    /\ preStore = [f \in Flows |-> {}]
    /\ bulkRequest = [f \in Flows |-> NoRequest]
    /\ response = [f \in Flows |-> NoResponse]
    /\ thrown = [f \in Flows |-> NoThrown]
    /\ query = [f \in Flows |-> NoQuery]
    /\ result = [f \in Flows |-> NoResult]
    /\ searchResult = [f \in Flows |-> NoSearchResult]
    /\ indexExists = [f \in Flows |-> "unknown"]
    /\ entry = [f \in Flows |-> Backend]
    /\ sinceDrop = "nothing"
    /\ TimerInit

\* --------------------------------------------------------- method plumbing
\* A method may be invoked whenever the flow is not inside another one.
Callable(f) == pc[f] = "idle"

\* The method's promise has settled: resolved ("done") or rejected ("failed").
Settled(f) == pc[f] \in {"done", "failed"}

\* Entering a public method: a fresh record of what this invocation does.
Enter(f, method, first, err, its, req, q) ==
    /\ op' = [op EXCEPT ![f] = method]
    /\ pc' = [pc EXCEPT ![f] = first]
    /\ calls' = [calls EXCEPT ![f] = <<>>]
    /\ sleeps' = [sleeps EXCEPT ![f] = 0]
    /\ probesFailed' = [probesFailed EXCEPT ![f] = 0]
    /\ success' = [success EXCEPT ![f] = FALSE]
    /\ error' = [error EXCEPT ![f] = err]
    /\ items' = [items EXCEPT ![f] = its]
    /\ preStore' = [preStore EXCEPT ![f] = {}]
    /\ bulkRequest' = [bulkRequest EXCEPT ![f] = req]
    /\ response' = [response EXCEPT ![f] = NoResponse]
    /\ thrown' = [thrown EXCEPT ![f] = NoThrown]
    /\ query' = [query EXCEPT ![f] = q]
    /\ result' = [result EXCEPT ![f] = NoResult]
    /\ searchResult' = [searchResult EXCEPT ![f] = NoSearchResult]
    /\ indexExists' = [indexExists EXCEPT ![f] = "unknown"]
    /\ entry' = [entry EXCEPT ![f] = Backend]

\* The backend call `c` is issued by flow f, which is awaiting it at pc = c.
Issue(f, c) ==
    /\ pc[f] = c
    /\ calls' = [calls EXCEPT ![f] = Append(@, c)]

\* The awaited call returned: the method runs on to `next`.
Resume(f, next) ==
    /\ pc' = [pc EXCEPT ![f] = next]
    /\ error' = error

\* Variant: the rejected call is awaited again instead of being surfaced.
RejectRetries(f, c) ==
    /\ pc' = pc
    /\ error' = error

\* The awaited call `c` rejected outside any try block: the method rejects.
Reject(f, c) ==
    /\ pc' = [pc EXCEPT ![f] = "failed"]
    /\ error' = [error EXCEPT ![f] = c]

\* ------------------------------------------------------------- initialize
\* Variant: the mapping step is left out.
AfterPutSettingsSkipsMapping == "open"

\* if (this.mapping != undefined), after the settings step
AfterPutSettings ==
    IF MappingDefined THEN "putMapping" ELSE "open"

\* Variant: the settings step is left out.
AfterCloseSkipsSettings == AfterPutSettings

\* if (this.indexSettings != undefined), after close
AfterClose ==
    IF SettingsDefined THEN "putSettings" ELSE AfterPutSettings

\* Variant: the index is configured without being closed first.
AfterEnsureIndexSkipsClose ==
    IF SettingsDefined \/ MappingDefined THEN AfterClose ELSE "done"

\* Variant: the index is closed and reopened whatever was supplied.
AfterEnsureIndexAlwaysCloses == "close"

\* if (this.indexSettings != undefined || this.mapping != undefined)
AfterEnsureIndex ==
    IF SettingsDefined \/ MappingDefined THEN "close" ELSE "done"

StartInitialize(f) ==
    /\ Callable(f)
    /\ Enter(f, "initialize", "ping", "none", <<>>, NoRequest, NoQuery)
    /\ UNCHANGED <<backendVars, configVars, sinceDrop, timerVars>>

\* Variant: the probe's rejection is not caught.
PingUncaught(f) ==
    /\ success' = success
    /\ probesFailed' = [probesFailed EXCEPT ![f] = @ + 1]
    /\ Reject(f, "ping")

\* Variant: a failed probe ends the gate as a successful one does.
PingCaughtLeavesGate(f) ==
    /\ success' = success
    /\ probesFailed' = [probesFailed EXCEPT ![f] = @ + 1]
    /\ Resume(f, "exists")

\* waitForConnection: the probe inside try/catch.
PingCaught(f) ==
    /\ success' = success
    /\ probesFailed' = [probesFailed EXCEPT ![f] = @ + 1]
    /\ Resume(f, "sleep")

Ping(f) ==
    /\ Issue(f, "ping")
    /\ \/ /\ success' = [success EXCEPT ![f] = TRUE]
          /\ probesFailed' = probesFailed
          /\ Resume(f, "sleep")
       \/ /\ probesFailed[f] < MaxPingFailures
          /\ PingCaught(f)
    /\ UNCHANGED <<backendVars, configVars, op, sleeps, indexVars, searchVars,
                   indexExists, entry, sinceDrop, timerVars>>

\* Variant: the gate returns after the first wait, connected or not.
AfterSleepIgnoresSuccess(f) == "exists"

\* while (!success)
AfterSleep(f) ==
    IF success[f] THEN "exists" ELSE "ping"

\* await sleep(2000), after the try/catch of every iteration.
Sleep(f) ==
    /\ pc[f] = "sleep"
    /\ sleeps' = [sleeps EXCEPT ![f] = @ + 1]
    /\ Resume(f, AfterSleep(f))
    /\ UNCHANGED <<backendVars, configVars, op, calls, probesFailed, success,
                   indexVars, searchVars, indexExists, entry, sinceDrop,
                   timerVars>>

\* Variant: the index is created whatever the existence check reported.
AfterExistsAlwaysCreates(exists) == "create"

\* ensureIndex: const indexExists = await this.client.indices.exists(...)
AfterExists(exists) ==
    IF ~exists THEN "create" ELSE AfterEnsureIndex

Exists(f) ==
    /\ Issue(f, "exists")
    /\ \/ /\ indexExists' = [indexExists EXCEPT ![f] =
                                 IF idx # "absent" THEN "true" ELSE "false"]
          /\ Resume(f, AfterExists(idx # "absent"))
       \/ /\ indexExists' = indexExists
          /\ Reject(f, "exists")
    /\ UNCHANGED <<backendVars, configVars, op, gateVars, indexVars,
                   searchVars, entry, sinceDrop, timerVars>>

\* Variant: a create refused because the index exists counts as done.
CreateToleratesExisting(f) ==
    /\ Issue(f, "create")
    /\ \/ /\ idx = "absent"
          /\ idx' = "open"
          /\ idxSettings' = "none"
          /\ idxMapping' = <<>>
          /\ store' = {}
          /\ Resume(f, AfterEnsureIndex)
       \/ /\ idx # "absent"
          /\ UNCHANGED backendVars
          /\ Resume(f, AfterEnsureIndex)
       \/ /\ UNCHANGED backendVars
          /\ Reject(f, "create")
    /\ UNCHANGED <<configVars, op, gateVars, indexVars, searchVars,
                   indexExists, entry, sinceDrop, timerVars>>

\* ensureIndex: await this.client.indices.create(...); the backend refuses to
\* create an index that exists.
Create(f) ==
    /\ Issue(f, "create")
    /\ \/ /\ idx = "absent"
          /\ idx' = "open"
          /\ idxSettings' = "none"
          /\ idxMapping' = <<>>
          /\ store' = {}
          /\ Resume(f, AfterEnsureIndex)
       \/ /\ UNCHANGED backendVars
          /\ Reject(f, "create")
    /\ UNCHANGED <<configVars, op, gateVars, indexVars, searchVars,
                   indexExists, entry, sinceDrop, timerVars>>

Close(f) ==
    /\ Issue(f, "close")
    /\ \/ /\ idx # "absent"
          /\ idx' = "closed"
          /\ Resume(f, AfterClose)
       \/ /\ idx' = idx
          /\ Reject(f, "close")
    /\ UNCHANGED <<idxSettings, idxMapping, store, configVars, op, gateVars,
                   indexVars, searchVars, indexExists, entry, sinceDrop,
                   timerVars>>

\* The backend accepts a settings change on a closed index only.
PutSettings(f) ==
    /\ Issue(f, "putSettings")
    /\ \/ /\ idx = "closed"
          /\ idxSettings' = indexSettings
          /\ Resume(f, AfterPutSettings)
       \/ /\ idxSettings' = idxSettings
          /\ Reject(f, "putSettings")
    /\ UNCHANGED <<idx, idxMapping, store, configVars, op, gateVars, indexVars,
                   searchVars, indexExists, entry, sinceDrop, timerVars>>

PutMapping(f) ==
    /\ Issue(f, "putMapping")
    /\ \/ /\ idx # "absent"
          /\ idxMapping' = mapping
          /\ Resume(f, "open")
       \/ /\ idxMapping' = idxMapping
          /\ Reject(f, "putMapping")
    /\ UNCHANGED <<idx, idxSettings, store, configVars, op, gateVars,
                   indexVars, searchVars, indexExists, entry, sinceDrop,
                   timerVars>>

Open(f) ==
    /\ Issue(f, "open")
    /\ \/ /\ idx # "absent"
          /\ idx' = "open"
          /\ Resume(f, "refresh")
       \/ /\ idx' = idx
          /\ Reject(f, "open")
    /\ UNCHANGED <<idxSettings, idxMapping, store, configVars, op, gateVars,
                   indexVars, searchVars, indexExists, entry, sinceDrop,
                   timerVars>>

Refresh(f) ==
    /\ Issue(f, "refresh")
    /\ \/ /\ idx = "open"
          /\ Resume(f, "done")
       \/ Reject(f, "refresh")
    /\ UNCHANGED <<backendVars, configVars, op, gateVars, indexVars,
                   searchVars, indexExists, entry, sinceDrop, timerVars>>

\* ------------------------------------------------------------------- drop
StartDrop(f) ==
    /\ Callable(f)
    /\ Enter(f, "drop", "delete", "none", <<>>, NoRequest, NoQuery)
    /\ UNCHANGED <<backendVars, configVars, sinceDrop, timerVars>>

\* Variant: drop() re-runs initialize() without its connection gate.
AfterDeleteSkipsGate == "exists"

\* await this.initialize(): its first await is waitForConnection's probe.
AfterDelete == "ping"

\* Variant: drop() goes on to initialize() although delete was rejected.
DeleteReinitializesAnyway(f) ==
    /\ Issue(f, "delete")
    /\ \/ /\ idx # "absent"
          /\ idx' = "absent"
          /\ idxSettings' = "none"
          /\ idxMapping' = <<>>
          /\ store' = {}
          /\ Resume(f, AfterDelete)
       \/ /\ UNCHANGED backendVars
          /\ pc' = [pc EXCEPT ![f] = AfterDelete]
          /\ error' = [error EXCEPT ![f] = "delete"]
    /\ UNCHANGED <<configVars, op, gateVars, indexVars, searchVars,
                   indexExists, entry, sinceDrop, timerVars>>

\* await this.client.indices.delete(...); then await this.initialize().
Delete(f) ==
    /\ Issue(f, "delete")
    /\ \/ /\ idx # "absent"
          /\ idx' = "absent"
          /\ idxSettings' = "none"
          /\ idxMapping' = <<>>
          /\ store' = {}
          /\ Resume(f, AfterDelete)
       \/ /\ UNCHANGED backendVars
          /\ Reject(f, "delete")
    /\ UNCHANGED <<configVars, op, gateVars, indexVars, searchVars,
                   indexExists, entry, sinceDrop, timerVars>>

\* ------------------------------------------------------------------ index
Items == [id : Ids, document : Documents]

RECURSIVE SeqsUpTo(_, _)
SeqsUpTo(S, n) ==
    IF n = 0 THEN {<<>>}
    ELSE LET shorter == SeqsUpTo(S, n - 1)
         IN  shorter \cup {Append(s, x) : s \in shorter, x \in S}

Batches == SeqsUpTo(Items, MaxBatch)

\* Variant: the directive is not keyed by the item's id.
DirectiveFixedId(item) == [index |-> [_id |-> "a"]]

\* { index: { _id: item.id } }
Directive(item) == [index |-> [_id |-> item.id]]

\* Variant: the body is built from the last item to the first.
RECURSIVE BulkBodyReversed(_)
BulkBodyReversed(its) ==
    IF its = <<>> THEN <<>>
    ELSE BulkBodyReversed(Tail(its)) \o <<[index |-> [_id |-> Head(its).id]],
                                           Head(its).document>>

\* for (const item of items) bulkRequest.body.push(directive, item.document)
RECURSIVE BulkBody(_)
BulkBody(its) ==
    IF its = <<>> THEN <<>>
    ELSE <<Directive(Head(its)), Head(its).document>> \o BulkBody(Tail(its))

BulkRequest(its) ==
    [body |-> BulkBody(its), index |-> IndexName, type |-> TypeName]

StartIndex(f) ==
    /\ Callable(f)
    /\ \E its \in Batches :
          Enter(f, "index", "bulk", "none", its, BulkRequest(its), NoQuery)
    /\ UNCHANGED <<backendVars, configVars, sinceDrop, timerVars>>

\* The backend's bulk API: body[2k-1] is the k-th action, body[2k] its document.
\* An `index` action stores the document under its _id, replacing what was there.
Upsert(docs, id, document) ==
    {d \in docs : d[1] # id} \cup {<<id, document>>}

NumActions(body) == Len(body) \div 2

RECURSIVE ApplyBulk(_, _, _, _)
ApplyBulk(docs, body, k, failed) ==
    IF k > NumActions(body) THEN docs
    ELSE LET id == body[2 * k - 1].index._id
             after == IF k \in failed THEN docs
                      ELSE Upsert(docs, id, body[2 * k])
         IN  ApplyBulk(after, body, k + 1, failed)

\* One outcome per action, in the order of the actions; `error` only on a failure.
Outcome(body, k, failed) ==
    IF k \in failed
    THEN [index |-> [_id |-> body[2 * k - 1].index._id, status |-> 400,
                     error |-> "mapper_parsing_exception"]]
    ELSE [index |-> [_id |-> body[2 * k - 1].index._id, status |-> 201]]

BulkResponse(body, failed, took) ==
    [took |-> took,
     errors |-> failed # {},
     items |-> [k \in 1 .. NumActions(body) |-> Outcome(body, k, failed)]]

\* JSON.stringify: an object is rendered as its own properties, in order, each a
\* <<key, text>> pair; an absent property is not rendered.
NumberText(n) ==
    CASE n = 200 -> "200" [] n = 201 -> "201" [] n = 400 -> "400"
      [] n = 3 -> "3" [] n = 7 -> "7" [] OTHER -> "0"

StringifyOutcome(o) ==
    <<<<"_id", o.index._id>>, <<"status", NumberText(o.index.status)>>>>
    \o (IF "error" \in DOMAIN o.index THEN <<<<"error", o.index.error>>>> ELSE <<>>)

Stringify(resp) ==
    [took |-> NumberText(resp.took),
     errors |-> IF resp.errors THEN "true" ELSE "false",
     items |-> [k \in DOMAIN resp.items |-> StringifyOutcome(resp.items[k])]]


\* if (response.errors) throw new Error(JSON.stringify(response, null, 2))
IndexThrows(resp) == resp.errors

\* Variant: the message carries the outcomes of the failed items only.
ErrorMessageFailedOnly(resp) ==
    [Stringify(resp) EXCEPT
        !.items = SelectSeq(@, LAMBDA rendered :
                                  \E i \in DOMAIN rendered : rendered[i][1] = "error")]

ErrorMessage(resp) == Stringify(resp)

\* const response = await this.client.bulk(bulkRequest); the backend writes to
\* an open index only, and each action succeeds or fails on its own.
Bulk(f) ==
    /\ Issue(f, "bulk")
    /\ preStore' = [preStore EXCEPT ![f] = store]
    /\ \/ /\ idx = "open"
          /\ \E failed \in SUBSET (1 .. NumActions(bulkRequest[f].body)), took \in Tooks :
                LET resp == BulkResponse(bulkRequest[f].body, failed, took)
                IN  /\ store' = ApplyBulk(store, bulkRequest[f].body, 1, failed)
                    /\ response' = [response EXCEPT ![f] = resp]
                    /\ IF IndexThrows(resp)
                       THEN /\ thrown' = [thrown EXCEPT ![f] = ErrorMessage(resp)]
                            /\ Reject(f, "Error")
                       ELSE /\ thrown' = thrown
                            /\ Resume(f, "done")
       \/ /\ UNCHANGED <<store, response, thrown>>
          /\ Reject(f, "bulk")
    /\ UNCHANGED <<idx, idxSettings, idxMapping, configVars, op, gateVars,
                   items, bulkRequest, searchVars, indexExists, entry,
                   sinceDrop, timerVars>>

\* ----------------------------------------------------------------- search
Queries == [supported : BOOLEAN, limit : 1 .. MaxHits]

\* Converter.convert(query, indexName, typeName): pagination becomes `size`; a
\* query with a feature that has no backend equivalent is refused.
Convertible(q) == q.supported

Convert(q, indexName, typeName) ==
    [index |-> indexName, type |-> typeName, body |-> [size |-> q.limit]]

\* Variant: the query is executed although its conversion failed.
StartSearchIgnoresConversion(f) ==
    /\ Callable(f)
    /\ \E q \in Queries : Enter(f, "search", "search", "none", <<>>, NoRequest, q)
    /\ UNCHANGED <<backendVars, configVars, sinceDrop, timerVars>>

\* const elasticsearchQuery = Converter.convert(...), before the first await.
StartSearch(f) ==
    /\ Callable(f)
    /\ \E q \in Queries :
          IF Convertible(q)
          THEN Enter(f, "search", "search", "none", <<>>, NoRequest, q)
          ELSE Enter(f, "search", "failed", "UnsupportedQueryError", <<>>,
                     NoRequest, q)
    /\ UNCHANGED <<backendVars, configVars, sinceDrop, timerVars>>

\* The backend's query API: some of the documents match; the first `size` of them,
\* in the backend's ranking, are returned with the count of all that match.
Min(a, b) == IF a < b THEN a ELSE b

Hit(d) == [_id |-> d[1], _source |-> d[2]]

Rankings(matching, n) ==
    {r \in [1 .. n -> matching] : \A i, j \in 1 .. n : i # j => r[i] # r[j]}

QueryResponses(docs, size) ==
    {[took |-> took,
      hits |-> [total |-> Cardinality(matching),
                hits |-> [i \in DOMAIN r |-> Hit(r[i])]]] :
        took \in Tooks,
        r \in UNION {Rankings(matching, Min(size, Cardinality(matching))) :
                        matching \in SUBSET docs},
        matching \in SUBSET docs}

\* result.hits.hits.map((hit) => hit._source)
MapHits(hits) == [i \in 1 .. Len(hits) |-> hits[i]._source]

\* Variant: total counts the returned items instead of the matches.
ToSearchResultCountsItems(res) ==
    [total |-> Len(res.hits.hits), milliseconds |-> res.took,
     items |-> MapHits(res.hits.hits)]

ToSearchResult(res) ==
    [total |-> res.hits.total, milliseconds |-> res.took,
     items |-> MapHits(res.hits.hits)]

\* const result = await this.client.search<T>(elasticsearchQuery); the backend
\* reads from an open index only.
Search(f) ==
    /\ Issue(f, "search")
    /\ \/ /\ idx = "open"
          /\ \E res \in QueryResponses(store,
                    Convert(query[f], IndexName, TypeName).body.size) :
                /\ result' = [result EXCEPT ![f] = res]
                /\ searchResult' = [searchResult EXCEPT ![f] = ToSearchResult(res)]
          /\ Resume(f, "done")
       \/ /\ UNCHANGED <<result, searchResult>>
          /\ Reject(f, "search")
    /\ UNCHANGED <<backendVars, configVars, op, gateVars, indexVars, query,
                   indexExists, entry, sinceDrop, timerVars>>

\* What the caller has completed since its last successful drop(): "drop" right
\* after it, "index" once a non-empty index() has then completed without error.
Completed(f) ==
    IF pc[f] = "done" /\ op[f] = "drop" THEN "drop"
    ELSE IF pc[f] = "done" /\ op[f] = "index" /\ items[f] # <<>>
            /\ sinceDrop = "drop" THEN "index"
    ELSE "nothing"

\* The caller has taken the outcome of the settled method; the flow is free for
\* the next invocation.
Return(f) ==
    /\ Settled(f)
    /\ Enter(f, "none", "idle", "none", <<>>, NoRequest, NoQuery)
    /\ sinceDrop' = Completed(f)
    /\ UNCHANGED <<backendVars, configVars, timerVars>>

\* ---------------------------------------------------------- specification
Step(f) ==
    \/ StartInitialize(f)
    \/ Ping(f)
    \/ Sleep(f)
    \/ Exists(f)
    \/ Create(f)
    \/ Close(f)
    \/ PutSettings(f)
    \/ PutMapping(f)
    \/ Open(f)
    \/ Refresh(f)
    \/ StartIndex(f)
    \/ Bulk(f)
    \/ StartSearch(f)
    \/ Search(f)
    \/ StartDrop(f)
    \/ Delete(f)
    \/ Return(f)

\* One logical flow per client instance.
Next == Step(1)

Spec == Init /\ [][Next]_vars

\* initialize() and drop() alone, with the backend answering every call it is
\* sent (the probe has a request timeout, the backoff timer fires) and the
\* runtime resuming the method after each answer.  The caller is free never to
\* invoke anything.
LifecycleStep(f) ==
    \/ Ping(f)
    \/ Sleep(f)
    \/ Exists(f)
    \/ Create(f)
    \/ Close(f)
    \/ PutSettings(f)
    \/ PutMapping(f)
    \/ Open(f)
    \/ Refresh(f)
    \/ Delete(f)

LifecycleNext ==
    \/ StartInitialize(1)
    \/ StartDrop(1)
    \/ LifecycleStep(1)
    \/ Return(1)

LifecycleSpec ==
    Init /\ [][LifecycleNext]_vars /\ WF_vars(LifecycleStep(1))

\* Two callers each invoke initialize() or drop() once on the same client:
\* between two awaited calls of one flow the other flow may take any number of
\* steps.
ConcurrentNext ==
    \E f \in Flows :
        \/ StartInitialize(f)
        \/ StartDrop(f)
        \/ LifecycleStep(f)

ConcurrentSpec == Init /\ [][ConcurrentNext]_vars

\* ------------------------------------------------------- cancelableTimeout
\* Time is followed one unit past the longest delay.
MaxClock == MaxMilliseconds + 1

\* The declared overloads: (cancelPromise), (cancelPromise, resolveOnCancel),
\* (cancelPromise, milliseconds), (cancelPromise, milliseconds, resolveOnCancel).
Arguments ==
    {NoArgs}
    \cup {[NoArgs EXCEPT !.second = "boolean", !.boolean = b] : b \in BOOLEAN}
    \cup {[NoArgs EXCEPT !.second = "number", !.number = n] :
            n \in 0..MaxMilliseconds}
    \cup {[NoArgs EXCEPT !.second = "number", !.number = n, !.third = t] :
            n \in 0..MaxMilliseconds, t \in {"true", "false"}}

\* millisecondsOrResolveOnCancel: number | boolean = 0
MillisecondsOrResolveOnCancel(args) ==
    IF args.second = "omitted" THEN [NoArgs EXCEPT !.second = "number"]
    ELSE args

\* const milliseconds = (typeof ... == 'number') ? millisecondsOrResolveOnCancel : 0
Milliseconds(args) ==
    IF MillisecondsOrResolveOnCancel(args).second = "number"
    THEN MillisecondsOrResolveOnCancel(args).number
    ELSE 0

\* resolveOnCancel: boolean = false, overwritten by a boolean second argument.
ResolveOnCancel(args) ==
    IF MillisecondsOrResolveOnCancel(args).second = "boolean"
    THEN args.boolean
    ELSE args.third = "true"

\* resolve(value) of the returned promise: only the first call settles it.
Resolve(value) ==
    /\ promise' = (IF promise = "pending" THEN value ELSE promise)
    /\ resolveCalls' = resolveCalls + 1

NoResolve ==
    /\ promise' = promise
    /\ resolveCalls' = resolveCalls

\* The call: the executor runs synchronously up to `await cancelPromise`; the
\* timer is armed, and the continuation is queued at once when cancelPromise has
\* resolved already.
CancelableTimeout ==
    /\ timer = "unset"
    /\ \E args \in Arguments :
          /\ ctArgs' = args
          /\ milliseconds' = Milliseconds(args)
          /\ resolveOnCancel' = ResolveOnCancel(args)
    /\ resolved' = FALSE
    /\ timer' = "armed"
    /\ awaiting' = (IF cancelPromise = "resolved" THEN "ready" ELSE "waiting")
    /\ clock' = 0
    /\ UNCHANGED <<cancelPromise, promise, resolveCalls, firstHandled,
                   engineVars>>

\* The owner of cancelPromise resolves it, before or after the call.
CancelResolves ==
    /\ cancelPromise = "pending"
    /\ cancelPromise' = "resolved"
    /\ awaiting' = (IF awaiting = "waiting" THEN "ready" ELSE awaiting)
    /\ UNCHANGED <<ctArgs, milliseconds, resolveOnCancel, resolved, timer,
                   promise, resolveCalls, clock, firstHandled, engineVars>>

\* Variant: the callback after the await does not look at `resolved`.
SettledBeforeCancelIgnored == FALSE

\* if (!resolved), after `await cancelPromise`
SettledBeforeCancel == resolved

\* Variant: the promise is resolved on cancellation whatever was asked.
ResolvesOnCancelAlways == TRUE

\* if (resolveOnCancel)
ResolvesOnCancel == resolveOnCancel

\* The code after `await cancelPromise`, run as a microtask.
Continuation ==
    /\ awaiting = "ready"
    /\ awaiting' = "done"
    /\ IF ~SettledBeforeCancel
       THEN /\ timer' = (IF timer = "armed" THEN "cleared" ELSE timer)
            /\ IF ResolvesOnCancel THEN Resolve("true") ELSE NoResolve
            /\ resolved' = TRUE
       ELSE /\ NoResolve
            /\ UNCHANGED <<timer, resolved>>
    /\ firstHandled' = (IF firstHandled = "none" THEN "cancel" ELSE firstHandled)
    /\ UNCHANGED <<ctArgs, milliseconds, resolveOnCancel, cancelPromise, clock,
                   engineVars>>

\* The setTimeout callback: it runs once the delay has elapsed, and as a task it
\* runs only when no microtask is queued.
TimerFires ==
    /\ timer = "armed"
    /\ clock >= milliseconds
    /\ awaiting # "ready"
    /\ timer' = "fired"
    /\ IF ~resolved
       THEN /\ Resolve("false")
            /\ resolved' = TRUE
       ELSE /\ NoResolve
            /\ resolved' = resolved
    /\ firstHandled' = (IF firstHandled = "none" THEN "timer" ELSE firstHandled)
    /\ UNCHANGED <<ctArgs, milliseconds, resolveOnCancel, cancelPromise,
                   awaiting, clock, engineVars>>

\* Time passes.
Tick ==
    /\ timer # "unset"
    /\ clock < MaxClock
    /\ clock' = clock + 1
    /\ UNCHANGED <<ctArgs, milliseconds, resolveOnCancel, resolved, timer,
                   cancelPromise, awaiting, promise, resolveCalls, firstHandled,
                   engineVars>>

\* The event loop: a queued continuation runs, a due timer fires, time passes.
EventLoop ==
    \/ Continuation
    \/ TimerFires
    \/ Tick

TimeoutNext ==
    \/ CancelableTimeout
    \/ CancelResolves
    \/ EventLoop

\* cancelableTimeout is independent of the client: the client stays as built.
TimeoutInit ==
    /\ Init
    /\ indexSettings = "undefined"
    /\ mapping = <<>>

TimeoutSpec == TimeoutInit /\ [][TimeoutNext]_vars /\ WF_vars(EventLoop)

\* ============================================================== properties
Count(c, s) == Cardinality({i \in DOMAIN s : s[i] = c})

IsPrefix(s, t) == Len(s) <= Len(t) /\ \A i \in DOMAIN s : s[i] = t[i]

ConfigCalls == {"close", "putSettings", "putMapping", "open", "refresh"}

IsConfigCall(c) == c \in ConfigCalls

IsLifecycleCall(c) == c # "ping"

ConfigTrace(f) == SelectSeq(calls[f], IsConfigCall)

Initializing(f) == op[f] \in {"initialize", "drop"}

\* The sequence the configuration calls are to follow for the client's settings
\* and mapping.
ExpectedConfig ==
    <<"close">>
    \o (IF SettingsDefined THEN <<"putSettings">> ELSE <<>>)
    \o (IF MappingDefined THEN <<"putMapping">> ELSE <<>>)
    \o <<"open", "refresh">>

\* C1: when settings or a mapping were supplied, the configuration calls an
\* initialize() has issued so far are always a prefix of close, putSettings (iff
\* settings were supplied), putMapping (iff a mapping was supplied), open,
\* refresh, and a successful initialize() has issued exactly that sequence.
C1_ConfigurationOrder ==
    \A f \in Flows :
        (Initializing(f) /\ (SettingsDefined \/ MappingDefined)) =>
            /\ IsPrefix(ConfigTrace(f), ExpectedConfig)
            /\ pc[f] = "done" => ConfigTrace(f) = ExpectedConfig

C1_Witness ==
    \E f \in Flows :
        /\ op[f] = "initialize"
        /\ pc[f] = "done"
        /\ SettingsDefined
        /\ MappingDefined
        /\ ConfigTrace(f) = <<"close", "putSettings", "putMapping", "open", "refresh">>

FailedAtConfig(f) ==
    Initializing(f) /\ pc[f] = "failed" /\ error[f] \in ConfigCalls

\* C2 as stated: whichever configuration step errors, initialize() fails with that
\* error, has issued no later step, and the index is left closed.
C2_FailureLeavesIndexClosed ==
    \A f \in Flows :
        FailedAtConfig(f) =>
            /\ calls[f][Len(calls[f])] = error[f]
            /\ idx = "closed"

\* C2 amended: whichever configuration step errors, initialize() fails with that
\* error and has issued no later step; the index is left closed when the failing
\* step is putSettings, putMapping or open, and is open when it is refresh.
C2_FailureAbortsSequence ==
    \A f \in Flows :
        FailedAtConfig(f) =>
            /\ calls[f][Len(calls[f])] = error[f]
            /\ IsPrefix(ConfigTrace(f), ExpectedConfig)
            /\ error[f] \in {"putSettings", "putMapping", "open"} => idx = "closed"
            /\ error[f] = "refresh" => idx = "open"

C2_Witness ==
    \E f \in Flows :
        /\ FailedAtConfig(f)
        /\ error[f] = "putMapping"
        /\ ConfigTrace(f) = <<"close", "putSettings", "putMapping">>
        /\ idx = "closed"

\* The connection gate of flow f has returned.
GatePassed(f) ==
    /\ Initializing(f)
    /\ pc[f] \notin {"idle", "delete", "ping", "sleep"}
    /\ error[f] # "delete"

\* C3 as stated: once the gate has returned after N failed probes it has performed
\* exactly N backoff waits, and no wait follows the successful probe.
C3_WaitsEqualFailedProbes ==
    \A f \in Flows :
        /\ GatePassed(f) => sleeps[f] = probesFailed[f]
        /\ success[f] => pc[f] # "sleep"

\* C4: a failed health probe never makes initialize() fail: the method never
\* rejects with the probe's error, after a failed probe it is still inside the
\* gate, and the gate returns only after one more probe than have failed.
C4_PingFailureNeverSurfaced ==
    \A f \in Flows :
        /\ error[f] # "ping"
        /\ (Initializing(f) /\ probesFailed[f] > 0 /\ ~success[f]) =>
               pc[f] \in {"ping", "sleep"}
        /\ GatePassed(f) => Count("ping", calls[f]) = probesFailed[f] + 1

C4_Witness ==
    \E f \in Flows :
        /\ op[f] = "initialize"
        /\ pc[f] = "done"
        /\ probesFailed[f] = 2
        /\ Count("ping", calls[f]) = 3

\* index() of flow f has received the backend's answer to its bulk call.
ResponseReceived(f) ==
    op[f] = "index" /\ Settled(f) /\ error[f] # "bulk"

Carries(rendered, key, text) ==
    \E i \in DOMAIN rendered : rendered[i] = <<key, text>>

\* C5: an index() that has received the bulk response fails exactly when the
\* response's errors flag is set, and the error it then throws carries, for every
\* item of the batch in order, the item's id and status, with the error reason of
\* each item that failed.
C5_BulkErrorCarriesEveryOutcome ==
    \A f \in Flows :
        ResponseReceived(f) =>
            /\ pc[f] = "failed" <=> response[f].errors
            /\ pc[f] = "failed" =>
                  /\ Len(thrown[f].items) = Len(items[f])
                  /\ \A k \in DOMAIN items[f] :
                        LET outcome == response[f].items[k].index
                            carried == thrown[f].items[k]
                        IN  /\ Carries(carried, "_id", items[f][k].id)
                            /\ Carries(carried, "status", NumberText(outcome.status))
                            /\ outcome.status = 400 =>
                                  Carries(carried, "error", outcome.error)

C5_Witness ==
    \E f \in Flows :
        /\ ResponseReceived(f)
        /\ pc[f] = "failed"
        /\ Len(items[f]) = 2
        /\ response[f].items[1].index.status = 201
        /\ response[f].items[2].index.status = 400
        /\ Carries(thrown[f].items[1], "status", "201")
        /\ Carries(thrown[f].items[2], "error", "mapper_parsing_exception")

\* C6: an index() issues one bulk call, addressed to the configured index and
\* type, whose body has two entries per item, in the order of the items: the
\* upsert directive keyed by the item's id, then the item's document.
C6_BulkRequestShape ==
    \A f \in Flows :
        op[f] = "index" =>
            /\ bulkRequest[f].index = IndexName
            /\ bulkRequest[f].type = TypeName
            /\ Len(bulkRequest[f].body) = 2 * Len(items[f])
            /\ \A k \in DOMAIN items[f] :
                  /\ bulkRequest[f].body[2 * k - 1] = [index |-> [_id |-> items[f][k].id]]
                  /\ bulkRequest[f].body[2 * k] = items[f][k].document
            /\ Count("bulk", calls[f]) = (IF Settled(f) THEN 1 ELSE 0)
            /\ Len(calls[f]) <= 1

C6_Witness ==
    \E f \in Flows :
        /\ op[f] = "index"
        /\ pc[f] = "done"
        /\ Len(items[f]) = 2
        /\ items[f][1].id # items[f][2].id
        /\ Len(bulkRequest[f].body) = 4

DocumentsUnder(docs, id) == {d[2] : d \in {e \in docs : e[1] = id}}

LastPosition(its, id) ==
    CHOOSE k \in DOMAIN its :
        its[k].id = id /\ \A j \in DOMAIN its : its[j].id = id => j <= k

\* C7: after an index() that completed without error, each id of the batch has
\* exactly one document in the index: that of the last item of the batch with
\* that id, whatever was stored under the id before.
C7_LaterDocumentWins ==
    \A f \in Flows :
        (op[f] = "index" /\ pc[f] = "done") =>
            \A k \in DOMAIN items[f] :
                DocumentsUnder(store, items[f][k].id) =
                    {items[f][LastPosition(items[f], items[f][k].id)].document}

C7_Witness ==
    \E f \in Flows :
        /\ op[f] = "index"
        /\ pc[f] = "done"
        /\ Len(items[f]) = 2
        /\ items[f][1].id = items[f][2].id
        /\ items[f][1].document # items[f][2].document
        /\ DocumentsUnder(preStore[f], items[f][1].id) = {items[f][1].document}
        /\ DocumentsUnder(store, items[f][1].id) = {items[f][2].document}

\* C8: a search() that returned has items equal, position by position, to the
\* sources of the backend's hits, total equal to the backend's match count and
\* milliseconds equal to the backend's took.
C8_SearchResultMapsResponse ==
    \A f \in Flows :
        (op[f] = "search" /\ pc[f] = "done") =>
            /\ Len(searchResult[f].items) = Len(result[f].hits.hits)
            /\ \A i \in DOMAIN result[f].hits.hits :
                  searchResult[f].items[i] = result[f].hits.hits[i]._source
            /\ searchResult[f].total = result[f].hits.total
            /\ searchResult[f].milliseconds = result[f].took

C8_Witness ==
    \E f \in Flows :
        /\ op[f] = "search"
        /\ pc[f] = "done"
        /\ Len(searchResult[f].items) = 1
        /\ searchResult[f].total = 2
        /\ searchResult[f].milliseconds = 7
        /\ searchResult[f].items[1] = [title |-> "t2"]

OperationCalls ==
    {"exists", "create", "close", "putSettings", "putMapping", "open", "refresh",
     "bulk", "search", "delete"}

\* C9: within one operation every backend call other than the health probe is
\* issued at most once, and when such a call has failed the operation has failed
\* with that call's error and that call is the last one it issued.
C9_NoRetryOutsideGate ==
    \A f \in Flows :
        /\ \A c \in OperationCalls : Count(c, calls[f]) <= 1
        /\ op[f] = "index" => \A i \in DOMAIN calls[f] : calls[f][i] = "bulk"
        /\ op[f] = "search" => \A i \in DOMAIN calls[f] : calls[f][i] = "search"
        /\ op[f] = "initialize" => "delete" \notin {calls[f][i] : i \in DOMAIN calls[f]}
        /\ error[f] \in OperationCalls =>
              /\ pc[f] = "failed"
              /\ calls[f][Len(calls[f])] = error[f]

C9_Witness ==
    \E f \in Flows :
        /\ op[f] = "drop"
        /\ pc[f] = "failed"
        /\ error[f] = "open"
        /\ calls[f] = <<"delete", "ping", "exists", "create", "close", "putSettings",
                        "putMapping", "open">>

LifecycleTrace(f) == SelectSeq(calls[f], IsLifecycleCall)

\* C10 as stated: a drop() during which no probe has failed (the backend is
\* connected) issues no health probe and performs no backoff wait.
C10_GateSkippedWhenConnected ==
    \A f \in Flows :
        (op[f] = "drop" /\ probesFailed[f] = 0) =>
            /\ Count("ping", calls[f]) = 0
            /\ sleeps[f] = 0

\* C10 amended: drop() deletes the index and then runs the whole of initialize(),
\* the connection gate included: the call after delete is a health probe, a
\* backoff wait follows every probe, and a successful drop() has issued delete,
\* at least one probe, exists, create and the configuration sequence, in that
\* order.
C10_DropRunsWholeInitialize ==
    \A f \in Flows :
        op[f] = "drop" =>
            /\ Len(calls[f]) >= 1 => calls[f][1] = "delete"
            /\ Len(calls[f]) >= 2 => calls[f][2] = "ping"
            /\ GatePassed(f) =>
                  /\ Count("ping", calls[f]) >= 1
                  /\ sleeps[f] = Count("ping", calls[f])
            /\ pc[f] = "done" =>
                  LifecycleTrace(f) =
                      <<"delete", "exists", "create">>
                      \o (IF SettingsDefined \/ MappingDefined
                          THEN ExpectedConfig ELSE <<>>)

C10_Witness ==
    \E f \in Flows :
        /\ op[f] = "drop"
        /\ pc[f] = "done"
        /\ probesFailed[f] = 0
        /\ sleeps[f] = 1
        /\ calls[f] = <<"delete", "ping", "exists", "create", "close", "putSettings",
                        "putMapping", "open", "refresh">>

\* The settings and mapping an index configured by this client carries.
ConfiguredSettings == IF SettingsDefined THEN indexSettings ELSE "none"

DocumentsOf(its) == {<<its[k].id, its[k].document>> : k \in DOMAIN its}

\* C11: when drop() has returned successfully the index exists, is open, holds no
\* document (so none of those indexed before the drop) and carries the configured
\* settings and mapping; an index() called next finds the index open and, when it
\* completes without error, the index holds documents of its batch only; a
\* search() called after that finds the index open and not empty.
C11_DropLeavesFreshConfiguredIndex ==
    \A f \in Flows :
        /\ (op[f] = "drop" /\ pc[f] = "done") =>
              /\ idx = "open"
              /\ store = {}
              /\ idxSettings = ConfiguredSettings
              /\ idxMapping = mapping
        /\ (sinceDrop = "drop" /\ op[f] = "index") =>
              /\ idx = "open"
              /\ pc[f] = "done" =>
                    /\ store \subseteq DocumentsOf(items[f])
                    /\ \A k \in DOMAIN items[f] :
                          DocumentsUnder(store, items[f][k].id) # {}
        /\ (sinceDrop = "index" /\ op[f] = "search") =>
              /\ idx = "open"
              /\ store # {}

C11_Witness ==
    \E f \in Flows :
        /\ sinceDrop = "index"
        /\ op[f] = "search"
        /\ pc[f] = "done"
        /\ Len(searchResult[f].items) = 1
        /\ store = {<<"a", searchResult[f].items[1]>>}
        /\ idxSettings = "nonempty"
        /\ idxMapping = <<TypeName, "nonempty">>

\* C12: ensureIndex issues create exactly when its existence check reported the
\* index absent; when the check reported that the index exists no create is
\* issued, the index still exists with the documents it had, and until a
\* configuration call is issued the backend's index is as the method found it.
C12_EnsureIndexIdempotent ==
    \A f \in Flows :
        Initializing(f) =>
            /\ indexExists[f] = "unknown" => Count("create", calls[f]) = 0
            /\ indexExists[f] = "false" =>
                  \/ pc[f] = "create" /\ Count("create", calls[f]) = 0
                  \/ pc[f] # "create" /\ Count("create", calls[f]) = 1
            /\ indexExists[f] = "true" =>
                  /\ Count("create", calls[f]) = 0
                  /\ idx # "absent"
                  /\ store = entry[f].documents
                  /\ ConfigTrace(f) = <<>> => Backend = entry[f]

C12_Witness ==
    \E f \in Flows :
        /\ op[f] = "initialize"
        /\ pc[f] = "done"
        /\ indexExists[f] = "true"
        /\ calls[f] = <<"ping", "exists">>
        /\ store # {}
        /\ Backend = entry[f]

\* Settings or a mapping with content were supplied to the constructor.
NonEmptyConfiguration ==
    \/ indexSettings = "nonempty"
    \/ MappingDefined /\ mapping[2] = "nonempty"

\* C13 as stated: when neither settings nor mapping were supplied, or what was
\* supplied is empty, initialize() issues no configuration call and the index is
\* never closed.
C13_ConfiguresOnlyWhenNonEmpty ==
    \A f \in Flows :
        (Initializing(f) /\ ~NonEmptyConfiguration) =>
            /\ ConfigTrace(f) = <<>>
            /\ idx # "closed"

\* C13 amended: when neither settings nor mapping were supplied (both undefined)
\* initialize() issues no configuration call and the index is never closed; an
\* empty settings or mapping object counts as supplied, and a successful
\* initialize() has then issued the whole configuration sequence.
C13_ConfiguresOnlyWhenSupplied ==
    \A f \in Flows :
        Initializing(f) =>
            /\ ~(SettingsDefined \/ MappingDefined) =>
                  /\ ConfigTrace(f) = <<>>
                  /\ idx # "closed"
            /\ ((SettingsDefined \/ MappingDefined) /\ ~NonEmptyConfiguration
                    /\ pc[f] = "done") =>
                  ConfigTrace(f) = ExpectedConfig

C13_Witness ==
    \E f \in Flows :
        /\ op[f] = "initialize"
        /\ pc[f] = "done"
        /\ ~SettingsDefined
        /\ ~MappingDefined
        /\ calls[f] = <<"ping", "exists", "create">>
        /\ idx = "open"

\* The phase of initialize() a backend call belongs to (0: drop's delete before
\* it; 1: connection gate; 2: ensureIndex; 3: applyConfiguration).
Phase(c) ==
    CASE c = "delete" -> 0
      [] c = "ping" -> 1
      [] c \in {"exists", "create"} -> 2
      [] OTHER -> 3

IssuedInPhase(f, n) == \E i \in DOMAIN calls[f] : Phase(calls[f][i]) = n

\* C14: within one initialize() the calls never go back to an earlier phase; a
\* call of ensureIndex or of the configuration is issued only after a probe of
\* this initialize() has succeeded; a configuration call is issued only after
\* ensureIndex has completed without error (exists answered, and create was issued
\* and not rejected when it answered absent).
C14_PhasesInOrder ==
    \A f \in Flows :
        Initializing(f) =>
            /\ \A i, j \in DOMAIN calls[f] :
                  i < j => Phase(calls[f][i]) <= Phase(calls[f][j])
            /\ (IssuedInPhase(f, 2) \/ IssuedInPhase(f, 3)) =>
                  /\ success[f]
                  /\ Count("ping", calls[f]) = probesFailed[f] + 1
            /\ IssuedInPhase(f, 3) =>
                  /\ Count("exists", calls[f]) = 1
                  /\ indexExists[f] \in {"true", "false"}
                  /\ indexExists[f] = "false" => Count("create", calls[f]) = 1
                  /\ error[f] \notin {"exists", "create"}

C14_Witness ==
    \E f \in Flows :
        /\ op[f] = "initialize"
        /\ pc[f] = "done"
        /\ calls[f] = <<"ping", "ping", "exists", "create", "close", "putSettings",
                        "putMapping", "open", "refresh">>

\* C15: a search() whose query the converter refuses fails with
\* UnsupportedQueryError without any backend call; the query call is issued only
\* for a query the converter has translated, and a result is mapped only after
\* that one call has been issued.
C15_ConvertThenExecuteThenMap ==
    \A f \in Flows :
        op[f] = "search" =>
            /\ ~Convertible(query[f]) =>
                  /\ pc[f] = "failed"
                  /\ error[f] = "UnsupportedQueryError"
                  /\ calls[f] = <<>>
            /\ calls[f] # <<>> =>
                  /\ Convertible(query[f])
                  /\ calls[f] = <<"search">>
            /\ pc[f] = "search" => calls[f] = <<>> /\ searchResult[f] = NoSearchResult
            /\ searchResult[f] # NoSearchResult => pc[f] = "done" /\ calls[f] = <<"search">>

C15_Witness ==
    \E f \in Flows :
        /\ op[f] = "search"
        /\ ~query[f].supported
        /\ pc[f] = "failed"
        /\ error[f] = "UnsupportedQueryError"
        /\ calls[f] = <<>>

\* The connection gate of flow f is running and no probe has succeeded yet.
GateWaiting(f) ==
    Initializing(f) /\ pc[f] \notin {"idle", "delete"} /\ error[f] # "delete"
        /\ ~success[f]

\* While no probe has succeeded the method has neither returned nor failed, it is
\* at a probe or at a backoff wait, and one wait separates consecutive probes.
GateKeepsProbing ==
    \A f \in Flows :
        GateWaiting(f) =>
            /\ pc[f] \in {"ping", "sleep"}
            /\ pc[f] = "ping" => sleeps[f] = Count("ping", calls[f])
            /\ pc[f] = "sleep" => sleeps[f] + 1 = Count("ping", calls[f])
            /\ Count("ping", calls[f]) = probesFailed[f]

\* C16: as long as no probe has succeeded initialize() neither returns nor fails
\* and alternates probes and backoff waits; every wait leads to the next probe or
\* out of the gate; and an initialize() at its probe eventually completes unless a
\* later backend call is rejected.
C16_GateTerminatesOnSuccess ==
    /\ []GateKeepsProbing
    /\ (pc[1] = "sleep" /\ ~success[1]) ~> (pc[1] = "ping")
    /\ (pc[1] = "sleep" /\ success[1]) ~> (pc[1] # "sleep")
    /\ (pc[1] = "ping") ~> (pc[1] = "done" \/ error[1] \in OperationCalls)

C16_Witness ==
    /\ op[1] = "initialize"
    /\ pc[1] = "done"
    /\ probesFailed[1] = 2
    /\ sleeps[1] = 3
    /\ success[1]

\* C17: a drop() whose delete call was rejected has failed with that error after
\* that single call: no probe, no wait, no exists, create or configuration call,
\* and the backend's index is as the method found it.
C17_FailedDeleteStopsDrop ==
    \A f \in Flows :
        (op[f] = "drop" /\ error[f] = "delete") =>
            /\ pc[f] = "failed"
            /\ calls[f] = <<"delete">>
            /\ sleeps[f] = 0
            /\ probesFailed[f] = 0
            /\ Backend = entry[f]

C17_Witness ==
    \E f \in Flows :
        /\ op[f] = "drop"
        /\ pc[f] = "failed"
        /\ error[f] = "delete"
        /\ calls[f] = <<"delete">>
        /\ idx = "absent"
        /\ entry[f].idx = "absent"

\* C18 as stated: whenever a flow is about to issue create, the index is absent.
C18_CreateOnlyOnAbsentIndex ==
    \A f \in Flows : pc[f] = "create" => idx = "absent"

\* A flow issues its create call while the index exists.
CreateOnExisting(f) ==
    /\ pc[f] = "create"
    /\ pc'[f] # "create"
    /\ idx # "absent"

\* C18, amended: a flow issues create only after its own existence check answered
\* absent, but the check and the create are separate calls that another flow's
\* create can come between; a create then issued for an index that exists is
\* rejected, the flow fails with the create error and the backend is unchanged.
C18_CreateFollowsOwnCheckOnly ==
    /\ [](\A f \in Flows :
            (pc[f] = "create" \/ Count("create", calls[f]) > 0) =>
                indexExists[f] = "false")
    /\ [][\A f \in Flows :
            CreateOnExisting(f) =>
                /\ pc'[f] = "failed"
                /\ error'[f] = "create"
                /\ Backend' = Backend]_vars

C18_Witness ==
    /\ op[1] = "initialize"
    /\ pc[1] = "failed"
    /\ error[1] = "create"
    /\ indexExists[1] = "false"
    /\ op[2] = "initialize"
    /\ indexExists[2] = "false"
    /\ Count("create", calls[2]) = 1
    /\ error[2] = "none"
    /\ idx # "absent"

\* C19: cancelableTimeout calls resolve at most once; the promise is false
\* exactly when the timer callback ran first, which it does only while the cancel
\* promise is unresolved; the promise is true only when the cancellation was
\* handled first and resolveOnCancel is set; once the cancellation was handled
\* first the timer is cleared and the promise is never false; a cancel promise
\* that resolves while the timer is armed has its continuation queued ahead of
\* the timer.
C19_SettlesAtMostOnce ==
    /\ [](/\ resolveCalls <= 1
          /\ promise = "false" <=> firstHandled = "timer"
          /\ firstHandled = "timer" <=> timer = "fired"
          /\ promise = "true" =>
                /\ firstHandled = "cancel"
                /\ resolveOnCancel
          /\ firstHandled = "cancel" =>
                /\ cancelPromise = "resolved"
                /\ timer = "cleared"
                /\ promise # "false"
          /\ (cancelPromise = "resolved" /\ timer = "armed") =>
                /\ awaiting = "ready"
                /\ ~ENABLED TimerFires)
    /\ [][TimerFires => cancelPromise = "pending"]_vars

C19_Witness ==
    /\ firstHandled = "timer"
    /\ cancelPromise = "resolved"
    /\ awaiting = "done"
    /\ resolveOnCancel
    /\ promise = "false"
    /\ resolveCalls = 1

\* C20 as stated: with resolveOnCancel false, once the cancellation was handled
\* before the timer fired the returned promise is eventually settled.
C20_CancelEventuallySettles ==
    (firstHandled = "cancel" /\ ~resolveOnCancel) ~> (promise # "pending")

\* C20, amended: once the cancellation was handled before the timer fired the
\* timer is cleared, and the returned promise is true when resolveOnCancel is set
\* and otherwise stays pending for ever: nothing settles it any more.
C20_CancelSettlesOnlyOnRequest ==
    firstHandled = "cancel" =>
        /\ timer = "cleared"
        /\ promise = (IF resolveOnCancel THEN "true" ELSE "pending")
        /\ resolveCalls = (IF resolveOnCancel THEN 1 ELSE 0)
        /\ ~ENABLED Continuation

C20_Witness ==
    /\ ctArgs = NoArgs
    /\ ~resolveOnCancel
    /\ firstHandled = "cancel"
    /\ awaiting = "done"
    /\ timer = "cleared"
    /\ clock = MaxClock
    /\ promise = "pending"

=============================================================================
